---- MODULE Spec2Model ----
(***************************************************************************)
(* A model of seabox (src/src/main.rs): one CLI invocation as a state      *)
(* machine.  The configuration layers, the CLI arguments and the host      *)
(* facts are fixed in the initial state; every external process the        *)
(* program spawns is one step, whose outcome is chosen by the environment. *)
(* `spawned' is the list of argument vectors handed to the operating       *)
(* system, `stdout' the list of lines printed on standard output, `stderr' *)
(* the messages written to standard error.                                *)
(*                                                                         *)
(* Strings the program only passes along are TLA+ strings.  Strings the    *)
(* program parses (mount specifiers, label values, passwd lines, paths,    *)
(* pass-through arguments) are sequences of one-character strings.         *)
(***************************************************************************)
EXTENDS Integers, Sequences, FiniteSets, TLC

VARIABLES
    parsed_config_file, \* Context.parsed_config_file: [base, image_specific]
    env,                \* the process environment (SEABOX_* variables)
    cli,                \* the parsed command line (Cli)
    host,               \* geteuid, getegid, current_dir of the process
    config,             \* Context.config
    config_with_cli_flags, \* the provisional first-pass result
    pc,                 \* position of the single thread of control
    loc,                \* locals of the running handler
    world,              \* what the external collaborators answer in this run
    spawned,            \* argument vectors of the processes spawned, in order
    stdout,             \* lines printed on standard output, in order
    stderr,             \* messages written to standard error, in order
    exit_code           \* exit status once the process has ended

vars == <<parsed_config_file, env, cli, host, config, config_with_cli_flags,
          pc, loc, world, spawned, stdout, stderr, exit_code>>

----------------------------------------------------------------------------
(* Bounds of the model *)

\* longest list of additional mount specifiers (-v) drawn
MaxMounts == 2
\* longest passwd dump (in lines) drawn
MaxPasswdLines == 2
\* longest list of container names given to remove / restart
MaxNames == 2

----------------------------------------------------------------------------
(* Option<T> and int-to-text helpers *)

None == [some |-> FALSE]
Some(v) == [some |-> TRUE, val |-> v]

\* values of a figment dictionary
Str(s) == [kind |-> "Str", s |-> s]
Bool(b) == [kind |-> "Bool", b |-> b]
\* figment's Empty::None, what a serialized Option::None becomes
Empty == [kind |-> "Empty"]
\* the key is not in the dictionary
Absent == [kind |-> "Absent"]

----------------------------------------------------------------------------
(* Constants of the program *)

SEABOX_NAME == "seabox"
NEW_USER_USERNAME == "user"
DEFAULT_SUDO_PATH == "sudo"
DEFAULT_USER_ID == 1000
\* the band of "first normal user" ids kept from the passwd dump
BandLow == 1000
BandHigh == 2000

----------------------------------------------------------------------------
(* Configuration layers (figment) *)

StrKeys == {"image", "sudo_command"}
BoolKeys == {"install_sudo", "no_password", "unsafe_setup_passwordless_sudo"}
Keys == StrKeys \cup BoolKeys

\* the keys CreateAndTempSharedArgs shares with Config (it has no sudo_command)
CliKeys == {"image", "install_sudo", "no_password", "unsafe_setup_passwordless_sudo"}

\* Env::prefixed("SEABOX_"): the variable that feeds each key
EnvVar == [image |-> "SEABOX_IMAGE",
           sudo_command |-> "SEABOX_SUDO_COMMAND",
           install_sudo |-> "SEABOX_INSTALL_SUDO",
           no_password |-> "SEABOX_NO_PASSWORD",
           unsafe_setup_passwordless_sudo |-> "SEABOX_UNSAFE_SETUP_PASSWORDLESS_SUDO"]

Tag(k, raw) == IF k \in StrKeys THEN Str(raw) ELSE Bool(raw)

\* Serialized::defaults(&BaseConfig): every field is skipped when None
SerializeBase(b) == [k \in Keys |-> IF b[k].some THEN Tag(k, b[k].val) ELSE Absent]

\* Serialized::defaults(&CreateAndTempSharedArgs): the Option fields are
\* skipped when None; its other keys (shell, directory, no_dir, volume,
\* pass_through, root) are no field of Config and are ignored by extract
SerializeCli(a) ==
    [k \in Keys |-> IF k \in CliKeys /\ a[k].some THEN Tag(k, a[k].val) ELSE Absent]

\* Serialized::defaults(&Config): nothing is skipped, None becomes Empty
SerializeConfig(c) ==
    [image |-> IF c.image.some THEN Str(c.image.val) ELSE Empty,
     sudo_command |-> Str(c.sudo_command),
     install_sudo |-> IF c.install_sudo.some THEN Bool(c.install_sudo.val) ELSE Empty,
     no_password |-> Bool(c.no_password),
     unsafe_setup_passwordless_sudo |-> Bool(c.unsafe_setup_passwordless_sudo)]

\* figment reads the text of an environment variable as a value
ParseEnvValue(s) ==
    IF s = "true" THEN Bool(TRUE)
    ELSE IF s = "false" THEN Bool(FALSE)
    ELSE Str(s)

EnvProvider(e) ==
    [k \in Keys |-> IF e[EnvVar[k]].some THEN ParseEnvValue(e[EnvVar[k]].val) ELSE Absent]

\* Figment::merge: a key of the incoming provider replaces the same key below
MergeNoOverride(lower, upper) ==
    [k \in Keys |-> IF lower[k] # Absent THEN lower[k] ELSE upper[k]]

Merge(lower, upper) ==
    [k \in Keys |-> IF upper[k] # Absent THEN upper[k] ELSE lower[k]]

\* Figment::extract::<Config>(): serde defaults fill what is missing
Extract(d) ==
    [image |-> IF d["image"].kind = "Str" THEN Some(d["image"].s) ELSE None,
     sudo_command |-> IF d["sudo_command"].kind = "Str"
                      THEN d["sudo_command"].s ELSE DEFAULT_SUDO_PATH,
     install_sudo |-> IF d["install_sudo"].kind = "Bool"
                      THEN Some(d["install_sudo"].b) ELSE None,
     no_password |-> IF d["no_password"].kind = "Bool"
                     THEN d["no_password"].b ELSE FALSE,
     unsafe_setup_passwordless_sudo |->
         IF d["unsafe_setup_passwordless_sudo"].kind = "Bool"
         THEN d["unsafe_setup_passwordless_sudo"].b ELSE FALSE]

\* create_config(base, profile)
create_config(base, profile, e) ==
    LET c0 == SerializeBase(base)
        c1 == IF profile.some THEN Merge(c0, SerializeBase(profile.val)) ELSE c0
    IN Extract(Merge(c1, EnvProvider(e)))

\* the configuration main() builds before the command line is parsed
MainConfig(file, e) == Extract(Merge(SerializeBase(file.base), EnvProvider(e)))

\* first merge of resolve_config_args_create_tmp: config, then the CLI flags
FirstPass(cfg, a) == Extract(Merge(SerializeConfig(cfg), SerializeCli(a)))

\* the per-image profile loop, wrongly keyed by the image of the
\* configuration before the CLI flags are merged in
ApplyProfile_KeyedBeforeCli(cfg, provisional, file, e) ==
    IF cfg.image.some /\ cfg.image.val \in DOMAIN file.image_specific
    THEN create_config(file.base, Some(file.image_specific[cfg.image.val]), e)
    ELSE cfg

\* the per-image profile loop: the profile keyed by the provisional image
ApplyProfile(cfg, provisional, file, e) ==
    IF provisional.image.some /\ provisional.image.val \in DOMAIN file.image_specific
    THEN create_config(file.base, Some(file.image_specific[provisional.image.val]), e)
    ELSE cfg

\* "Override with CLI args again", left out
SecondPass_NoCli(cfg, a) == cfg

\* "Override with CLI args again"
SecondPass(cfg, a) == Extract(Merge(SerializeConfig(cfg), SerializeCli(a)))

----------------------------------------------------------------------------
(* Text: integers, splitting, joining *)

DigitChars == <<"0", "1", "2", "3", "4", "5", "6", "7", "8", "9">>

IsDigit(c) == \E d \in 1..10 : DigitChars[d] = c

DigitVal(c) == (CHOOSE d \in 1..10 : DigitChars[d] = c) - 1

RECURSIVE DecNat(_)
DecNat(n) == IF n < 10 THEN DigitChars[n + 1]
             ELSE DecNat(n \div 10) \o DigitChars[(n % 10) + 1]

\* Display of an integer, as format!("{n}") prints it
Dec(n) == IF n < 0 THEN "-" \o DecNat(-n) ELSE DecNat(n)

RECURSIVE DigitsVal(_, _)
DigitsVal(cs, acc) ==
    IF cs = <<>> THEN acc ELSE DigitsVal(Tail(cs), acc * 10 + DigitVal(Head(cs)))

\* str::parse::<i64>(): an optional sign, then one or more digits (the texts
\* drawn are short, none is out of the range of i64)
ParseI64(cs) ==
    LET signed == Len(cs) > 0 /\ cs[1] \in {"+", "-"}
        digits == IF signed THEN Tail(cs) ELSE cs
        wellFormed == /\ Len(digits) > 0
                      /\ \A i \in 1..Len(digits) : IsDigit(digits[i])
        mag == DigitsVal(digits, 0)
    IN IF ~wellFormed THEN None
       ELSE IF signed /\ cs[1] = "-" THEN Some(-mag) ELSE Some(mag)

RECURSIVE SplitFrom(_, _, _, _, _)
SplitFrom(cs, sep, i, cur, acc) ==
    IF i > Len(cs) THEN Append(acc, cur)
    ELSE IF cs[i] = sep THEN SplitFrom(cs, sep, i + 1, <<>>, Append(acc, cur))
    ELSE SplitFrom(cs, sep, i + 1, Append(cur, cs[i]), acc)

\* str::split(sep): the fields between the separators, never an empty list
Split(cs, sep) == SplitFrom(cs, sep, 1, <<>>, <<>>)

\* the text of a sequence of characters
RECURSIVE Concat(_)
Concat(cs) == IF cs = <<>> THEN "" ELSE Head(cs) \o Concat(Tail(cs))

RECURSIVE JoinWith(_, _)
JoinWith(strs, sep) ==
    IF strs = <<>> THEN ""
    ELSE IF Len(strs) = 1 THEN strs[1]
    ELSE strs[1] \o sep \o JoinWith(Tail(strs), sep)

RECURSIVE Flatten(_)
Flatten(seqs) == IF seqs = <<>> THEN <<>> ELSE Head(seqs) \o Flatten(Tail(seqs))

Range(s) == {s[i] : i \in 1..Len(s)}

\* shlex::split on text made of spaces, single quotes and plain characters:
\* words are split at spaces, a quoted stretch is taken literally, and an
\* unterminated quote gives None
RECURSIVE ShlexFrom(_, _, _, _, _)
ShlexFrom(cs, i, mode, cur, acc) ==
    IF i > Len(cs)
    THEN CASE mode = "skip" -> Some(acc)
           [] mode = "word" -> Some(Append(acc, cur))
           [] mode = "single" -> None
    ELSE LET c == cs[i] IN
         CASE mode = "skip" ->
                IF c = " " THEN ShlexFrom(cs, i + 1, "skip", "", acc)
                ELSE IF c = "'" THEN ShlexFrom(cs, i + 1, "single", "", acc)
                ELSE ShlexFrom(cs, i + 1, "word", c, acc)
           [] mode = "word" ->
                IF c = " " THEN ShlexFrom(cs, i + 1, "skip", "", Append(acc, cur))
                ELSE IF c = "'" THEN ShlexFrom(cs, i + 1, "single", cur, acc)
                ELSE ShlexFrom(cs, i + 1, "word", cur \o c, acc)
           [] mode = "single" ->
                IF c = "'" THEN ShlexFrom(cs, i + 1, "word", cur, acc)
                ELSE ShlexFrom(cs, i + 1, "single", cur \o c, acc)

shlex_split(cs) == ShlexFrom(cs, 1, "skip", "", <<>>)

----------------------------------------------------------------------------
(* Paths *)

IsAbsolutePath(p) == Len(p) > 0 /\ p[1] = "/"

\* Path::components of an absolute path below its root: empty components
\* and "." are dropped, ".." is kept
Components(p) == SelectSeq(Split(p, "/"), LAMBDA c : c # <<>> /\ c # <<".">>)

\* std::path::absolute, as the components below the root
absolute(p, cwd) ==
    IF IsAbsolutePath(p) THEN Components(p) ELSE Components(cwd) \o Components(p)

IsPrefixSeq(a, b) == Len(a) <= Len(b) /\ SubSeq(b, 1, Len(a)) = a

\* a prefix test on the text of the two paths instead of their components
strip_prefix_ByText(cwd, base) ==
    LET c == Flatten([i \in 1..Len(cwd) |-> <<"/">> \o cwd[i]])
        b == Flatten([i \in 1..Len(base) |-> <<"/">> \o base[i]])
    IN IF IsPrefixSeq(b, c)
       THEN Some(Components(SubSeq(c, Len(b) + 1, Len(c))))
       ELSE None

\* Path::strip_prefix: by whole components
strip_prefix(cwd, base) ==
    IF IsPrefixSeq(base, cwd) THEN Some(SubSeq(cwd, Len(base) + 1, Len(cwd))) ELSE None

\* the relative path enter_container computes (lines 919-930)
RelativePath(host_dir, current_dir) ==
    LET absolute_path == absolute(host_dir, current_dir)
        cwd_path == absolute(current_dir, current_dir)
        rest == strip_prefix(cwd_path, absolute_path)
    IN IF rest.some
       THEN JoinWith([i \in 1..Len(rest.val) |-> Concat(rest.val[i])], "/")
       ELSE ""

----------------------------------------------------------------------------
(* Argument vectors *)

generate_container_inspect_command(name) ==
    <<config.sudo_command, "podman", "container", "inspect", name>>

generate_image_inspect_command(image) ==
    <<config.sudo_command, "podman", "image", "inspect", image>>

generate_image_pull_command(image) ==
    <<config.sudo_command, "podman", "pull", image>>

generate_cat_etc_password_command(image) ==
    <<config.sudo_command, "podman", "run", "--rm", "--entrypoint", "cat",
      image, "/etc/passwd">>

generate_list_containers_command ==
    <<config.sudo_command, "podman", "ps", "--all", "--filter",
      "label=" \o SEABOX_NAME \o "=true">>

generate_container_stop_command(name) ==
    <<config.sudo_command, "podman", "kill", name>>

generate_container_delete_command(name) ==
    <<config.sudo_command, "podman", "container", "rm", "--force", name>>

generate_container_start_command(name) ==
    <<config.sudo_command, "podman", "start", name>>

generate_container_enter_command(user, name, exec_command, relative_path) ==
    <<config.sudo_command, "podman", "exec", "-it", "-w",
      "/mount/" \o relative_path, "--user", user, name>> \o exec_command

\* DEFAULT_SHELL: /bin/sh -c <the shell-detecting script>
DEFAULT_SHELL == <<"/bin/sh", "-c", "<DEFAULT_SHELL script>">>

\* the text of init.sh with its placeholders filled in; the script itself is
\* an opaque asset, only what is substituted is kept
create_initial_enter_script(create_user, username, container_user_id, passwordless_sudo, no_password, install_sudo, shell, verbose) ==
    LET param_sudo_install_prompt ==
            IF install_sudo.some
            THEN (IF install_sudo.val THEN "install" ELSE "no_install")
            ELSE "prompt"
        flag(b) == IF b THEN "1" ELSE ""
    IN "INIT_SCRIPT{INSERT_CREATE_USER=" \o flag(create_user)
       \o ";INSERT_NEW_USERNAME=" \o username
       \o ";INSERT_CONTAINER_ID=" \o Dec(container_user_id)
       \o ";INSERT_SUDO_INSTALL=" \o param_sudo_install_prompt
       \o ";INSERT_PASSWORDLESS_SUDO=" \o flag(passwordless_sudo)
       \o ";INSERT_CREATE_PASSWORD=" \o flag(no_password)
       \o ";INSERT_VERBOSE=" \o flag(verbose)
       \o ";INSERT_SHELL=" \o (IF shell.some THEN shell.val ELSE "") \o "}"

\* resolve_image: the CLI image, else the configured one unless it is empty
resolve_image(image) ==
    IF image.some THEN image
    ELSE IF config.image.some /\ config.image.val # "" THEN config.image
    ELSE None

\* the idmap expression with host and container ids in each other's place
idmap_parameters_Swapped(root, host_user_id, host_user_gid, container_user_id, container_user_gid) ==
    IF root THEN "0-0-2000;gids=0-0-2000"
    ELSE Dec(container_user_id) \o "-" \o Dec(host_user_id) \o "-1#0-0-1;gids="
         \o Dec(container_user_gid) \o "-" \o Dec(host_user_gid) \o "-1#0-0-1"

\* the idmap expression (lines 495-503)
idmap_parameters(root, host_user_id, host_user_gid, container_user_id, container_user_gid) ==
    IF root THEN "0-0-2000;gids=0-0-2000"
    ELSE Dec(host_user_id) \o "-" \o Dec(container_user_id) \o "-1#0-0-1;gids="
         \o Dec(host_user_gid) \o "-" \o Dec(container_user_gid) \o "-1#0-0-1"

\* the primary mount (lines 505-508)
primary_mount(current_dir, idmap) ==
    "type=bind,source=" \o current_dir \o ",destination=/mount/,idmap=uids=" \o idmap

\* a specifier is taken when it has at least two fields
mount_specifier_ok_AtLeastTwo(mount_specifier) ==
    Len(Split(mount_specifier, ":")) >= 2

\* the test of line 514: exactly two colon-delimited fields
mount_specifier_ok(mount_specifier) ==
    Len(Split(mount_specifier, ":")) = 2

\* the --mount pair of one additional mount (lines 518-528)
additional_mount_pair(mount_specifier, idmap) ==
    LET values == Split(mount_specifier, ":")
        host_dir == Concat(values[1])
        container_dir == Concat(values[2])
    IN <<"--mount",
         "type=bind,source=" \o host_dir \o ",destination=" \o container_dir
             \o ",idmap=uids=" \o idmap>>

\* the loop of lines 512-529; None when a specifier is rejected (exit 1)
additional_mount_strings(additional_mounts, idmap) ==
    IF \E i \in 1..Len(additional_mounts) : ~mount_specifier_ok(additional_mounts[i])
    THEN None
    ELSE Some(Flatten([i \in 1..Len(additional_mounts) |->
                          additional_mount_pair(additional_mounts[i], idmap)]))

\* the specifier the loop of lines 510-516 stops at
first_invalid_mount(additional_mounts) ==
    LET i == CHOOSE i \in 1..Len(additional_mounts) :
                 /\ ~mount_specifier_ok(additional_mounts[i])
                 /\ \A j \in 1..(i - 1) : mount_specifier_ok(additional_mounts[j])
    IN additional_mounts[i]

\* the pass-through tokens spliced in (lines 550-554): none when no string
\* was given or when shlex cannot split it
pass_through_args(passthrough) ==
    IF passthrough.some /\ shlex_split(passthrough.val).some
    THEN shlex_split(passthrough.val).val
    ELSE <<>>

\* the mode flag of an ephemeral and of a persistent run, exchanged
mode_flag_Exchanged(temp) == IF temp THEN "-d" ELSE "--rm"

\* lines 544-548
mode_flag(temp) == IF temp THEN "--rm" ELSE "-d"

\* the resolved ids used for an ephemeral run as well
user_string_AlwaysResolved(temp, container_user_id, container_user_gid) ==
    Dec(container_user_id) \o ":" \o Dec(container_user_gid)

\* lines 557-563
user_string(temp, container_user_id, container_user_gid) ==
    IF temp THEN "0:0" ELSE Dec(container_user_id) \o ":" \o Dec(container_user_gid)

\* the run vector of lines 531-596
run_arguments(image, name, temp, pass_args, no_dir, mount, mount_strings, container_user_id, container_user_gid) ==
    LET hostname == SEABOX_NAME \o "-" \o name IN
    <<config.sudo_command, "podman", "run", "--label", SEABOX_NAME \o "=true",
      "--privileged", "-it">>
    \o <<mode_flag(temp)>>
    \o pass_args
    \o <<"--network", "host", "--hostname", hostname,
         "--add-host", hostname \o ":127.0.0.1",
         "-u", user_string(temp, container_user_id, container_user_gid),
         "--passwd=false", "-w", "/mount/">>
    \o (IF ~no_dir THEN <<"--mount", mount>> ELSE <<>>)
    \o mount_strings
    \o <<"--name", name, image>>

----------------------------------------------------------------------------
(* Identity resolution: the passwd dump *)

\* one line of the dump (lines 816-824): None when the line has no third and
\* fourth field or when one of them is no integer (the program panics)
parse_passwd_line(line) ==
    LET values == Split(line, ":") IN
    IF Len(values) < 4 THEN None
    ELSE LET uid == ParseI64(values[3])
             gid == ParseI64(values[4])
         IN IF uid.some /\ gid.some
            THEN Some([username |-> Concat(values[1]), uid |-> uid.val, gid |-> gid.val])
            ELSE None

\* lines that cannot be parsed are passed over
parse_passwd_SkipMalformed(lines) ==
    LET good == SelectSeq(lines, LAMBDA l : parse_passwd_line(l).some) IN
    Some([i \in 1..Len(good) |-> parse_passwd_line(good[i]).val])

\* the loop of lines 815-825 over every line of the dump
parse_passwd(lines) ==
    IF \E i \in 1..Len(lines) : ~parse_passwd_line(lines[i]).some
    THEN None
    ELSE Some([i \in 1..Len(lines) |-> parse_passwd_line(lines[i]).val])

\* the band closed at its upper end
in_band_Inclusive(u) == u.uid >= BandLow /\ u.uid <= BandHigh

\* the filter of line 829
in_band(u) == u.uid >= BandLow /\ u.uid < BandHigh

RECURSIVE InsertByUid(_, _)
InsertByUid(sorted, u) ==
    IF sorted = <<>> THEN <<u>>
    ELSE IF Head(sorted).uid <= u.uid THEN <<Head(sorted)>> \o InsertByUid(Tail(sorted), u)
    ELSE <<u>> \o sorted

\* sort_by_key(|k| k.1): a stable sort by uid
RECURSIVE sort_by_uid(_)
sort_by_uid(us) ==
    IF us = <<>> THEN <<>>
    ELSE InsertByUid(sort_by_uid(SubSeq(us, 1, Len(us) - 1)), us[Len(us)])

\* the first entry of the sorted band instead of the last
select_user_First(user_info) ==
    LET band == sort_by_uid(SelectSeq(user_info, in_band)) IN
    IF band = <<>> THEN None ELSE Some(<<band[1].uid, band[1].gid>>)

\* lines 827-835: the last entry of the band sorted by uid
select_user(user_info) ==
    LET band == sort_by_uid(SelectSeq(user_info, in_band)) IN
    IF band = <<>> THEN None ELSE Some(<<band[Len(band)].uid, band[Len(band)].gid>>)

\* the label is ignored
label_uid_gid_Ignored(label) == None

\* lines 792-798 once a label is present: Some(None) stands for the panic
\* of unwrap() on a value that is no integer
label_uid_gid(label) ==
    IF ~label.some THEN None
    ELSE LET uid == ParseI64(label.val) IN
         IF uid.some THEN Some(Some(<<uid.val, uid.val>>)) ELSE Some(None)

----------------------------------------------------------------------------
(* What a spawned process comes back with *)

Exited(code) == [kind |-> "exit", code |-> code]
\* ExitStatus::code() is None
Signalled == [kind |-> "signal"]
\* Command::status() / output() is Err
SpawnErr == [kind |-> "spawn_err"]

NonZero(st) == st.kind = "exit" /\ st.code # 0

\* what is printed on standard output
PrintCommand(argv) == [print |-> "command", argv |-> argv]
PrintLine(text) == [print |-> "line", text |-> text]

----------------------------------------------------------------------------
(* The invocation *)

inputs == <<parsed_config_file, env, cli, host, world>>

\* exit(code), or main returning (code 0), with nothing more said
Exit(code) == pc' = "done" /\ exit_code' = code /\ UNCHANGED stderr

\* eprintln!(text) followed by exit(1)
Fatal(text) == pc' = "done" /\ exit_code' = 1 /\ stderr' = Append(stderr, text)

\* a Rust panic (unwrap / expect / index out of bounds) writes its message
\* and ends the process with status 101
Panic == pc' = "done" /\ exit_code' = 101 /\ stderr' = Append(stderr, "panicked")

DryRunPrint(argv) == IF cli.dry_run THEN <<PrintCommand(argv)>> ELSE <<>>

\* main(): the configuration before the command line is looked at
Main ==
    /\ pc = "main"
    /\ config' = MainConfig(parsed_config_file, env)
    /\ pc' = "run"
    /\ UNCHANGED <<inputs, config_with_cli_flags, loc, spawned, stdout, exit_code, stderr>>

\* Context::resolve_config_args_create_tmp, called by run() for create and temp
resolve_config_args_create_tmp ==
    /\ pc = "run"
    /\ cli.command \in {"create", "temp"}
    /\ LET provisional == FirstPass(config, cli) IN
       /\ config_with_cli_flags' = provisional
       /\ config' = SecondPass(ApplyProfile(config, provisional, parsed_config_file, env), cli)
    /\ pc' = "resolved"
    /\ UNCHANGED <<inputs, loc, spawned, stdout, exit_code, stderr>>

\* the entry script whatever the mode
user_command_AlwaysScript(root, shell, script) == <<"/bin/sh", "-c", script>>

\* handle_temp: the foreground command of the container (lines 996-1002 and
\* 1022-1041)
user_command(root, shell, script) ==
    IF ~root THEN <<"/bin/sh", "-c", script>>
    ELSE IF shell.some THEN <<shell.val>>
    ELSE DEFAULT_SHELL

\* generate_create_container_command from line 478 on, then the handler up
\* to its first spawn: `l' are the locals so far, `target' what
\* determine_container_uid_gid returned, `out' what is printed so far
AfterDetermine(l, target, out) ==
    LET container_user_id ==
            IF cli.root THEN 0 ELSE IF target.some THEN target.val[1] ELSE DEFAULT_USER_ID
        container_user_gid ==
            IF cli.root THEN 0 ELSE IF target.some THEN target.val[2] ELSE DEFAULT_USER_ID
        create_user == ~cli.root /\ ~target.some
        l1 == [l EXCEPT !.determined = ~cli.root, !.target = target,
                        !.create_user = create_user,
                        !.container_user_id = container_user_id,
                        !.container_user_gid = container_user_gid]
        current_dir == IF cli.directory.some THEN Concat(cli.directory.val)
                       ELSE Concat(host.cwd)
        idmap == idmap_parameters(cli.root, host.uid, host.gid,
                                  container_user_id, container_user_gid)
        mount_strings == additional_mount_strings(cli.volume, idmap)
        pass_args == pass_through_args(cli.pass_through)
        script == create_initial_enter_script(create_user, NEW_USER_USERNAME,
                      container_user_id, config.unsafe_setup_passwordless_sudo,
                      config.no_password, config.install_sudo, cli.shell, cli.verbose)
        command == IF ~l.temp THEN <<"/bin/sh">>
                   ELSE user_command(cli.root, cli.shell, script)
    IN IF cli.directory.some /\ ~world.dir_exists
       THEN /\ loc' = l1
            /\ stdout' = out
            /\ Fatal("Directory '" \o Concat(cli.directory.val) \o "' does not exist")
       ELSE IF ~mount_strings.some
       THEN /\ loc' = [l1 EXCEPT !.idmap = idmap]
            /\ stdout' = out
            /\ Fatal("Invalid format for mount: "
                     \o Concat(first_invalid_mount(cli.volume)))
       ELSE LET arguments ==
                    run_arguments(l.image, l.name, l.temp, pass_args, cli.no_dir,
                                  primary_mount(current_dir, idmap), mount_strings.val,
                                  container_user_id, container_user_gid)
                    \o command
            IN /\ loc' = [l1 EXCEPT !.idmap = idmap, !.pass_args = pass_args,
                                    !.arguments = arguments, !.synthesized = TRUE]
               /\ IF cli.dry_run
                  THEN /\ stdout' = Append(out, PrintCommand(arguments))
                       /\ Exit(0)
                  ELSE /\ stdout' = out
                       /\ pc' = IF l.temp THEN "temp_run" ELSE "create_inspect"
                       /\ UNCHANGED <<exit_code, stderr>>

\* generate_create_container_command up to its first spawn (lines 437-476)
GenerateStart(temp, name, out) ==
    LET image == resolve_image(cli.image) IN
    IF ~image.some
    THEN /\ stdout' = out
         /\ Fatal("No default image found and no image provided with --image")
         /\ UNCHANGED loc
    ELSE LET l == [loc EXCEPT !.image = image.val, !.temp = temp, !.name = name] IN
         IF cli.root
         THEN AfterDetermine(l, None, out)
         ELSE /\ loc' = l
              /\ stdout' = out
              /\ pc' = "image_inspect"
              /\ UNCHANGED <<exit_code, stderr>>

\* handle_create up to its first spawn
handle_create ==
    /\ pc = "resolved"
    /\ cli.command = "create"
    /\ GenerateStart(FALSE, cli.name,
                     stdout \o DryRunPrint(generate_container_inspect_command(cli.name)))
    /\ UNCHANGED <<inputs, config, config_with_cli_flags, spawned>>

\* handle_temp up to its first spawn
handle_temp ==
    /\ pc = "resolved"
    /\ cli.command = "temp"
    /\ GenerateStart(TRUE, "", stdout)
    /\ UNCHANGED <<inputs, config, config_with_cli_flags, spawned>>

\* the pull goes ahead in a dry run as well
image_unavailable_NoStop(out) ==
    /\ stdout' = out
    /\ pc' = "image_pull"
    /\ UNCHANGED <<loc, exit_code, stderr>>

\* determine_container_uid_gid when the first image inspect gave nothing
\* (lines 762-772): a dry run stops here, otherwise the pull is next
image_unavailable(out) ==
    IF cli.dry_run
    THEN /\ stdout' = out \o
              <<PrintLine("# Need to pull image at this point - cannot proceed with dry run"),
                PrintCommand(generate_image_pull_command(loc.image))>>
         /\ Exit(1)
         /\ UNCHANGED loc
    ELSE /\ stdout' = out
         /\ pc' = "image_pull"
         /\ UNCHANGED <<loc, exit_code, stderr>>

\* image_inspect (lines 712-733) and what determine_container_uid_gid does
\* with its answer (lines 760-804)
image_inspect ==
    /\ pc = "image_inspect"
    /\ LET command == generate_image_inspect_command(loc.image)
           out == stdout \o DryRunPrint(command)
           answer == world.image_inspect[IF loc.pulled THEN 2 ELSE 1]
           from_label == label_uid_gid(world.label)
       IN /\ spawned' = Append(spawned, command)
          /\ CASE answer \in {"fail", "spawn_err"} ->
                    IF loc.pulled
                    THEN /\ stdout' = out
                         /\ Panic
                         /\ UNCHANGED loc
                    ELSE image_unavailable(out)
               [] answer = "badjson" ->
                    /\ stdout' = out
                    /\ Panic
                    /\ UNCHANGED loc
               [] answer = "ok" ->
                    IF from_label.some
                    THEN IF from_label.val.some
                         THEN AfterDetermine(loc, from_label.val, out)
                         ELSE /\ stdout' = out
                              /\ Panic
                              /\ UNCHANGED loc
                    ELSE /\ stdout' = out \o
                              DryRunPrint(generate_cat_etc_password_command(loc.image))
                         /\ pc' = "cat_passwd"
                         /\ UNCHANGED <<loc, exit_code, stderr>>
    /\ UNCHANGED <<inputs, config, config_with_cli_flags>>

\* the pull of lines 773-784
image_pull ==
    /\ pc = "image_pull"
    /\ spawned' = Append(spawned, generate_image_pull_command(loc.image))
    /\ IF world.pull = SpawnErr
       THEN Panic /\ UNCHANGED loc
       ELSE IF NonZero(world.pull)
       THEN Exit(1) /\ UNCHANGED loc
       ELSE /\ loc' = [loc EXCEPT !.pulled = TRUE]
            /\ pc' = "image_inspect"
            /\ UNCHANGED <<exit_code, stderr>>
    /\ UNCHANGED <<inputs, config, config_with_cli_flags, stdout>>

\* the passwd dump and its scan (lines 806-838)
cat_etc_passwd ==
    /\ pc = "cat_passwd"
    /\ spawned' = Append(spawned, generate_cat_etc_password_command(loc.image))
    /\ IF ~world.passwd.ok
       THEN AfterDetermine(loc, None, stdout)
       ELSE LET user_info == parse_passwd(world.passwd.lines) IN
            IF ~user_info.some
            THEN Panic /\ UNCHANGED <<loc, stdout>>
            ELSE AfterDetermine(loc, select_user(user_info.val), stdout)
    /\ UNCHANGED <<inputs, config, config_with_cli_flags>>

\* the answer of the inspect for an existing container is not looked at
create_container_inspect_Unchecked ==
    /\ pc = "create_inspect"
    /\ spawned' = Append(spawned, generate_container_inspect_command(cli.name))
    /\ IF world.create_inspect = SpawnErr THEN Panic
       ELSE pc' = "create_run" /\ UNCHANGED <<exit_code, stderr>>
    /\ UNCHANGED <<inputs, config, config_with_cli_flags, loc, stdout>>

\* handle_create: the inspect for an existing container (lines 652-662)
create_container_inspect ==
    /\ pc = "create_inspect"
    /\ spawned' = Append(spawned, generate_container_inspect_command(cli.name))
    /\ IF world.create_inspect = SpawnErr THEN Panic
       ELSE IF world.create_inspect = Exited(0)
       THEN Fatal("A container with name '" \o cli.name \o "' already exists")
       ELSE pc' = "create_run" /\ UNCHANGED <<exit_code, stderr>>
    /\ UNCHANGED <<inputs, config, config_with_cli_flags, loc, stdout>>

\* handle_create: the run, whose status is not looked at, then the call of
\* enter_container (lines 664-696)
create_container_run ==
    /\ pc = "create_run"
    /\ spawned' = Append(spawned, loc.arguments)
    /\ IF world.run = SpawnErr
       THEN Panic /\ UNCHANGED loc
       ELSE /\ loc' = [loc EXCEPT
                 !.enter_name = cli.name,
                 !.enter_username = Some("root"),
                 !.enter_shell = cli.shell,
                 !.append_args =
                     IF ~cli.root
                     THEN <<"/bin/sh", "-c",
                            create_initial_enter_script(loc.create_user, NEW_USER_USERNAME,
                                loc.container_user_id, config.unsafe_setup_passwordless_sudo,
                                config.no_password, config.install_sudo, cli.shell,
                                cli.verbose)>>
                     ELSE <<>>]
            /\ pc' = "enter_inspect"
            /\ UNCHANGED <<exit_code, stderr>>
    /\ UNCHANGED <<inputs, config, config_with_cli_flags, stdout>>

\* handle_temp: the run (lines 1050-1056); an error is printed and the
\* handler returns
temp_run ==
    /\ pc = "temp_run"
    /\ spawned' = Append(spawned, loc.arguments)
    /\ pc' = "done"
    /\ exit_code' = 0
    /\ stderr' = IF world.run = SpawnErr THEN Append(stderr, "Os error") ELSE stderr
    /\ UNCHANGED <<inputs, config, config_with_cli_flags, loc, stdout>>


\* handle_enter: the call of enter_container (lines 841-849)
handle_enter ==
    /\ pc = "run"
    /\ cli.command = "enter"
    /\ loc' = [loc EXCEPT !.enter_name = cli.name, !.enter_username = cli.user,
                          !.enter_shell = cli.shell, !.append_args = <<>>]
    /\ pc' = "enter_inspect"
    /\ UNCHANGED <<inputs, config, config_with_cli_flags, spawned, stdout, exit_code, stderr>>

\* lines 887-895
shell_command(append_args, shell) ==
    IF append_args # <<>> THEN append_args
    ELSE IF shell.some THEN <<shell.val>>
    ELSE DEFAULT_SHELL

\* enter_container from its inspect to its next spawn (lines 897-947)
enter_container_inspect ==
    /\ pc = "enter_inspect"
    /\ LET name == loc.enter_name
           info == world.enter_inspect
           container_inspect_command == generate_container_inspect_command(name)
       IN /\ spawned' = Append(spawned, container_inspect_command)
          /\ IF info.status = SpawnErr
             THEN Panic /\ UNCHANGED <<loc, stdout>>
             ELSE IF NonZero(info.status)
             THEN /\ Fatal("A container with name '" \o name \o "' does not exist")
                  /\ UNCHANGED <<loc, stdout>>
             ELSE IF ~info.json_ok \/ info.mounts = <<>>
             THEN Panic /\ UNCHANGED <<loc, stdout>>
             ELSE LET rel == RelativePath(info.mounts[1], host.cwd)
                      user == IF loc.enter_username.some
                              THEN loc.enter_username.val ELSE info.user
                      container_enter_command ==
                          generate_container_enter_command(user, name,
                              shell_command(loc.append_args, loc.enter_shell), rel)
                  IN /\ loc' = [loc EXCEPT !.rel = rel, !.entered = TRUE,
                                           !.enter_command = container_enter_command]
                     /\ IF cli.dry_run
                        THEN /\ stdout' = stdout \o
                                  <<PrintCommand(container_inspect_command),
                                    PrintCommand(generate_container_start_command(name)),
                                    PrintCommand(container_enter_command)>>
                             /\ Exit(0)
                        ELSE /\ stdout' = stdout
                             /\ pc' = IF info.running THEN "enter_exec" ELSE "enter_start"
                             /\ UNCHANGED <<exit_code, stderr>>
    /\ UNCHANGED <<inputs, config, config_with_cli_flags>>

\* enter_container: the start of a container that is not running (947-959)
enter_container_start ==
    /\ pc = "enter_start"
    /\ spawned' = Append(spawned, generate_container_start_command(loc.enter_name))
    /\ IF world.start = SpawnErr THEN Panic
       ELSE IF NonZero(world.start) THEN Fatal("Failed to start container")
       ELSE pc' = "enter_exec" /\ UNCHANGED <<exit_code, stderr>>
    /\ UNCHANGED <<inputs, config, config_with_cli_flags, loc, stdout>>

\* enter_container: exec replaces the process and returns only when it
\* fails (lines 961-966)
enter_container_exec ==
    /\ pc = "enter_exec"
    /\ spawned' = Append(spawned, loc.enter_command)
    /\ IF world.exec_ok
       THEN pc' = "exec" /\ UNCHANGED <<exit_code, stderr>>
       ELSE Fatal("Error: exec")
    /\ UNCHANGED <<inputs, config, config_with_cli_flags, loc, stdout>>

\* handle_remove up to its first spawn (lines 969-977)
handle_remove ==
    /\ pc = "run"
    /\ cli.command = "remove"
    /\ IF cli.dry_run
       THEN /\ stdout' = stdout \o Flatten([i \in 1..Len(cli.names) |->
                 <<PrintCommand(generate_container_stop_command(cli.names[i])),
                   PrintCommand(generate_container_delete_command(cli.names[i]))>>])
            /\ Exit(0)
            /\ UNCHANGED loc
       ELSE IF cli.names = <<>>
       THEN Exit(0) /\ UNCHANGED <<loc, stdout>>
       ELSE /\ loc' = [loc EXCEPT !.i = 1]
            /\ pc' = "remove_kill"
            /\ UNCHANGED <<stdout, exit_code, stderr>>
    /\ UNCHANGED <<inputs, config, config_with_cli_flags, spawned>>

\* handle_remove: the kill of one name, whose status is not looked at
remove_kill ==
    /\ pc = "remove_kill"
    /\ stdout' = Append(stdout, PrintLine("Deleting container " \o cli.names[loc.i]))
    /\ spawned' = Append(spawned, generate_container_stop_command(cli.names[loc.i]))
    /\ IF world.kill = SpawnErr THEN Panic
       ELSE pc' = "remove_rm" /\ UNCHANGED <<exit_code, stderr>>
    /\ UNCHANGED <<inputs, config, config_with_cli_flags, loc>>

\* handle_remove: the rm of one name, whose status is not looked at
remove_rm ==
    /\ pc = "remove_rm"
    /\ spawned' = Append(spawned, generate_container_delete_command(cli.names[loc.i]))
    /\ IF world.rm = SpawnErr
       THEN Panic /\ UNCHANGED loc
       ELSE IF loc.i = Len(cli.names)
       THEN Exit(0) /\ UNCHANGED loc
       ELSE /\ loc' = [loc EXCEPT !.i = loc.i + 1]
            /\ pc' = "remove_kill"
            /\ UNCHANGED <<exit_code, stderr>>
    /\ UNCHANGED <<inputs, config, config_with_cli_flags, stdout>>

\* handle_restart up to its first spawn (lines 1114-1122)
handle_restart ==
    /\ pc = "run"
    /\ cli.command = "restart"
    /\ IF cli.dry_run
       THEN /\ stdout' = stdout \o Flatten([i \in 1..Len(cli.names) |->
                 <<PrintCommand(generate_container_stop_command(cli.names[i])),
                   PrintCommand(generate_container_start_command(cli.names[i]))>>])
            /\ Exit(0)
            /\ UNCHANGED loc
       ELSE IF cli.names = <<>>
       THEN Exit(0) /\ UNCHANGED <<loc, stdout>>
       ELSE /\ loc' = [loc EXCEPT !.i = 1]
            /\ pc' = "restart_kill"
            /\ UNCHANGED <<stdout, exit_code, stderr>>
    /\ UNCHANGED <<inputs, config, config_with_cli_flags, spawned>>

\* handle_restart: the kill of one name, whose status is not looked at
restart_kill ==
    /\ pc = "restart_kill"
    /\ spawned' = Append(spawned, generate_container_stop_command(cli.names[loc.i]))
    /\ IF world.kill = SpawnErr THEN Panic
       ELSE pc' = "restart_start" /\ UNCHANGED <<exit_code, stderr>>
    /\ UNCHANGED <<inputs, config, config_with_cli_flags, loc, stdout>>

\* handle_restart: the start of one name, whose status is not looked at
restart_start ==
    /\ pc = "restart_start"
    /\ spawned' = Append(spawned, generate_container_start_command(cli.names[loc.i]))
    /\ IF world.start = SpawnErr
       THEN Panic /\ UNCHANGED loc
       ELSE IF loc.i = Len(cli.names)
       THEN Exit(0) /\ UNCHANGED loc
       ELSE /\ loc' = [loc EXCEPT !.i = loc.i + 1]
            /\ pc' = "restart_kill"
            /\ UNCHANGED <<exit_code, stderr>>
    /\ UNCHANGED <<inputs, config, config_with_cli_flags, stdout>>

\* handle_list up to its spawn (lines 1073-1078)
handle_list ==
    /\ pc = "run"
    /\ cli.command = "list"
    /\ IF cli.dry_run
       THEN /\ stdout' = Append(stdout, PrintCommand(generate_list_containers_command))
            /\ Exit(0)
       ELSE /\ pc' = "list_ps"
            /\ UNCHANGED <<stdout, exit_code, stderr>>
    /\ UNCHANGED <<inputs, config, config_with_cli_flags, loc, spawned>>

\* handle_list: the ps, whose status is not looked at
list_ps ==
    /\ pc = "list_ps"
    /\ spawned' = Append(spawned, generate_list_containers_command)
    /\ IF world.ps = SpawnErr THEN Panic ELSE Exit(0)
    /\ UNCHANGED <<inputs, config, config_with_cli_flags, loc, stdout>>

----------------------------------------------------------------------------
(* The invocations checked: inputs and answers of the environment *)

RECURSIVE DecCharsNat(_)
DecCharsNat(n) == IF n < 10 THEN <<DigitChars[n + 1]>>
                  ELSE Append(DecCharsNat(n \div 10), DigitChars[(n % 10) + 1])

\* a well-formed line of /etc/passwd: name:x:uid:gid::/:/
PasswdLine(name, uid, gid) ==
    name \o <<":", "x", ":">> \o DecCharsNat(uid) \o <<":">> \o DecCharsNat(gid)
         \o <<":", ":", "/", ":", "/">>

RECURSIVE SeqsUpTo(_, _)
SeqsUpTo(S, n) ==
    IF n = 0 THEN {<<>>}
    ELSE LET shorter == SeqsUpTo(S, n - 1) IN
         shorter \cup {Append(q, x) : q \in shorter, x \in S}

NoBase == [k \in Keys |-> None]

EnvVarNames == {EnvVar[k] : k \in Keys}

NoEnv == [v \in EnvVarNames |-> None]

NoProfiles == [i \in {} |-> NoBase]

Statuses == {Exited(0), Exited(125), Signalled, SpawnErr}

MountSpecifiers ==
    { <<"/", "a", "/", "b", ":", "/", "c", "/", "d">>,
      <<"x", ":", "y">>,
      <<"/", "a", "/", "b">>,
      <<"/", "a", ":", "/", "b", ":", "/", "c">>,
      <<":">> }

PassThroughs ==
    { None,
      Some(<<>>),
      Some(<<"-", "d">>),
      Some(<<"-", "-", "r", "m">>),
      Some(<<"-", "e", " ", "'", "A", "=", "b", " ", "c", "'", " ", " ", "-", "t">>),
      Some(<<"-", "u", " ", "5", ":", "5">>),
      Some(<<"-", "e", " ", "'", "A">>) }

Labels ==
    { None,
      Some(<<"1", "5", "0", "0">>),
      Some(<<"1", "0", "4", "2">>),
      Some(<<"0">>),
      Some(<<"-", "5">>),
      Some(<<"+", "7">>),
      Some(<<"x">>),
      Some(<<>>) }

PasswdLines ==
    { PasswdLine(<<"r">>, 999, 999),
      PasswdLine(<<"a">>, 1000, 1000),
      PasswdLine(<<"b">>, 1042, 1042),
      PasswdLine(<<"c">>, 1042, 7),
      PasswdLine(<<"d">>, 1999, 100),
      PasswdLine(<<"e">>, 2000, 2000),
      <<"u", ":", "x", ":", "a", "b", "c", ":", "1">>,
      <<"v", ":", "x", ":", "5", ":", "z">>,
      <<"u", ":", "x">> }

\* the dump of the uids 999, 1000, 1042 and 2000
ExamplePasswd ==
    << PasswdLine(<<"r">>, 999, 999), PasswdLine(<<"a">>, 1000, 1000),
       PasswdLine(<<"b">>, 1042, 1042), PasswdLine(<<"e">>, 2000, 2000) >>

HostIds == { <<1001, 1001>>, <<1000, 100>>, <<0, 0>> }

WorkingDirs ==
    { <<"/", "p", "/", "s">>, <<"/", "p">>, <<"/", "p", "2">>, <<"/", "q">>,
      <<"/">>, <<"/", "p", "/", "s", "/", "t">> }

MountSources ==
    { <<"/", "p">>, <<"/", "p", "/">>, <<"/", "p", "/", "s">>, <<"/">>,
      <<"/", "q", "/", "r">>, <<"s">>, <<"/", "p", "/", ".", "/", "s">> }

DefaultCli ==
    [command |-> "create", name |-> "box", names |-> <<>>, user |-> None,
     shell |-> None, image |-> None, directory |-> None, no_dir |-> FALSE,
     volume |-> <<>>, pass_through |-> None, root |-> FALSE,
     install_sudo |-> None, no_password |-> None,
     unsafe_setup_passwordless_sudo |-> None, dry_run |-> FALSE, verbose |-> FALSE]

DefaultFile ==
    [base |-> [NoBase EXCEPT !["image"] = Some("base")], image_specific |-> NoProfiles]

DefaultHost == [uid |-> 1001, gid |-> 1001, cwd |-> <<"/", "p", "/", "s">>]

DefaultWorld ==
    [image_inspect |-> <<"ok", "ok">>,
     label |-> None,
     pull |-> Exited(0),
     passwd |-> [ok |-> TRUE, lines |-> <<PasswdLine(<<"b">>, 1042, 1042)>>],
     dir_exists |-> TRUE,
     create_inspect |-> Exited(125),
     run |-> Exited(0),
     enter_inspect |-> [status |-> Exited(0), json_ok |-> TRUE,
                        mounts |-> << <<"/", "p">> >>, running |-> TRUE,
                        user |-> "1042:1042"],
     start |-> Exited(0),
     exec_ok |-> TRUE,
     kill |-> Exited(0),
     rm |-> Exited(0),
     ps |-> Exited(0)]

Default == [cli |-> DefaultCli, file |-> DefaultFile, env |-> NoEnv,
            host |-> DefaultHost, world |-> DefaultWorld]

CreateTemp == {"create", "temp"}

\* create and temp: flags, image sources, shell
ScnCreateTemp ==
    { [Default EXCEPT !.cli.command = c, !.cli.dry_run = d, !.cli.root = r,
                      !.cli.image = i, !.cli.shell = sh, !.cli.verbose = r,
                      !.file.base["image"] = b]
      : c \in CreateTemp, d \in BOOLEAN, r \in BOOLEAN,
        i \in {None, Some("img")}, sh \in {None, Some("/bin/zsh")},
        b \in {None, Some("base"), Some("")} }

\* identity resolution: what image inspect, pull and the label answer
ScnInspect ==
    { [Default EXCEPT !.cli.command = c, !.cli.dry_run = d,
                      !.world.image_inspect = <<i1, i2>>,
                      !.world.pull = p, !.world.label = l]
      : c \in CreateTemp, d \in BOOLEAN,
        i1 \in {"ok", "fail", "spawn_err", "badjson"}, i2 \in {"ok", "fail"},
        p \in Statuses, l \in Labels }

\* identity resolution: the passwd dump
ScnPasswd ==
    { [Default EXCEPT !.cli.command = c, !.world.passwd = pw]
      : c \in CreateTemp,
        pw \in {[ok |-> FALSE, lines |-> <<>>], [ok |-> TRUE, lines |-> ExamplePasswd]}
               \cup {[ok |-> TRUE, lines |-> ls] : ls \in SeqsUpTo(PasswdLines, MaxPasswdLines)} }

\* synthesis: host ids against the resolved ids
ScnIds ==
    { [Default EXCEPT !.cli.command = c, !.cli.dry_run = d, !.cli.root = r,
                      !.host.uid = h[1], !.host.gid = h[2], !.world.label = l,
                      !.world.passwd.lines = pw]
      : c \in CreateTemp, d \in BOOLEAN, r \in BOOLEAN, h \in HostIds,
        l \in {None, Some(<<"1", "5", "0", "0">>), Some(<<"-", "5">>)},
        pw \in {<<>>, <<PasswdLine(<<"c">>, 1042, 7)>>} }

\* synthesis: the mounts
ScnMounts ==
    { [Default EXCEPT !.cli.command = c, !.cli.dry_run = d, !.cli.root = r,
                      !.cli.no_dir = nd, !.cli.volume = v]
      : c \in CreateTemp, d \in BOOLEAN, r \in BOOLEAN, nd \in BOOLEAN,
        v \in SeqsUpTo(MountSpecifiers, MaxMounts) }

\* synthesis: pass-through arguments and the mount directory
ScnPassThrough ==
    { [Default EXCEPT !.cli.command = c, !.cli.dry_run = d, !.cli.root = r,
                      !.cli.pass_through = p, !.cli.directory = dir,
                      !.world.dir_exists = de]
      : c \in CreateTemp, d \in BOOLEAN, r \in BOOLEAN, p \in PassThroughs,
        dir \in {None, Some(<<"/", "d">>)}, de \in BOOLEAN }

\* create: the collision inspect and the run
ScnCreateRun ==
    { [Default EXCEPT !.cli.root = r, !.world.create_inspect = ci, !.world.run = ru,
                      !.world.passwd.lines = pw]
      : r \in BOOLEAN, ci \in Statuses, ru \in Statuses,
        pw \in {<<>>, <<PasswdLine(<<"b">>, 1042, 1042)>>} }

\* enter (alone and at the end of create): the paths
ScnEnterPaths ==
    { [Default EXCEPT !.cli.command = c, !.cli.dry_run = d, !.cli.user = u,
                      !.host.cwd = w, !.world.enter_inspect.mounts = ms]
      : c \in {"enter", "create"}, d \in BOOLEAN, u \in {None, Some("bob")},
        w \in WorkingDirs,
        ms \in {<<>>} \cup {<<m>> : m \in MountSources}
               \cup {<<m, <<"/", "z">> >> : m \in MountSources} }

\* enter (alone and at the end of create): what inspect, start and exec answer
ScnEnterSteps ==
    { [Default EXCEPT !.cli.command = c, !.cli.dry_run = d, !.cli.shell = sh,
                      !.world.enter_inspect.status = st,
                      !.world.enter_inspect.json_ok = j,
                      !.world.enter_inspect.running = ru,
                      !.world.start = s, !.world.exec_ok = x]
      : c \in {"enter", "create"}, d \in BOOLEAN, sh \in {None, Some("/bin/zsh")},
        st \in Statuses, j \in BOOLEAN, ru \in BOOLEAN, s \in Statuses, x \in BOOLEAN }

\* enter (alone and at the end of create) on a container without any mount
ScnNoMounts ==
    { [Default EXCEPT !.cli.command = c, !.cli.dry_run = d, !.cli.root = r,
                      !.cli.no_dir = TRUE,
                      !.world.enter_inspect.mounts = <<>>,
                      !.world.enter_inspect.running = ru]
      : c \in {"enter", "create"}, d \in BOOLEAN, r \in BOOLEAN, ru \in BOOLEAN }

\* remove, restart
ScnNames ==
    { [Default EXCEPT !.cli.command = c, !.cli.dry_run = d, !.cli.names = ns,
                      !.world.kill = k, !.world.rm = s, !.world.start = s]
      : c \in {"remove", "restart"}, d \in BOOLEAN,
        ns \in SeqsUpTo({"c1", "c2"}, MaxNames), k \in Statuses, s \in Statuses }

\* list
ScnList ==
    { [Default EXCEPT !.cli.command = "list", !.cli.dry_run = d, !.world.ps = s]
      : d \in BOOLEAN, s \in Statuses }


ImageOptions == {None, Some("a"), Some("b")}

FieldOptions(k) ==
    IF k = "image" THEN ImageOptions
    ELSE IF k = "sudo_command" THEN {None, Some("doas"), Some("run0")}
    ELSE {None, Some(TRUE), Some(FALSE)}

\* the text of an environment variable that sets key k to v
EnvText(k, v) == IF k \in BoolKeys THEN (IF v THEN "true" ELSE "false") ELSE v

EnvOf(k, v) == IF v.some THEN Some(EnvText(k, v.val)) ELSE None

ProfileMaps(k) ==
    UNION { [S -> {[NoBase EXCEPT ![k] = x] : x \in FieldOptions(k)}]
            : S \in SUBSET {"a", "b"} }

\* configuration: the image in every layer, profiles under either name
ScnConfigImage ==
    { [Default EXCEPT !.cli.command = c, !.cli.dry_run = TRUE, !.cli.root = TRUE,
                      !.cli.image = i,
                      !.env["SEABOX_IMAGE"] = e,
                      !.file = [base |-> [NoBase EXCEPT !["image"] = b],
                                image_specific |-> pm]]
      : c \in CreateTemp, i \in ImageOptions, e \in ImageOptions, b \in ImageOptions,
        pm \in ProfileMaps("image") }

\* configuration: one other field in every layer, with and without a
\* matching profile
ScnConfigField ==
    UNION { { [Default EXCEPT
                 !.cli = [[DefaultCli EXCEPT !.command = c, !.dry_run = TRUE,
                                             !.root = TRUE, !.image = i]
                          EXCEPT ![IF k \in CliKeys THEN k ELSE "install_sudo"] = cv],
                 !.env[EnvVar[k]] = EnvOf(k, ev),
                 !.file = [base |-> [NoBase EXCEPT !["image"] = b, ![k] = bv],
                           image_specific |-> [n \in {"a"} |-> [NoBase EXCEPT ![k] = pv]]]]
              : c \in CreateTemp, i \in ImageOptions, b \in {None, Some("a")},
                cv \in IF k \in CliKeys THEN FieldOptions(k) ELSE {None},
                ev \in FieldOptions(k), pv \in FieldOptions(k), bv \in FieldOptions(k) }
            : k \in Keys \ {"image"} }

Scenarios ==
    ScnCreateTemp \cup ScnInspect \cup ScnPasswd \cup ScnIds \cup ScnMounts
    \cup ScnPassThrough \cup ScnCreateRun \cup ScnEnterPaths \cup ScnEnterSteps
    \cup ScnNoMounts \cup ScnNames \cup ScnList \cup ScnConfigImage \cup ScnConfigField

----------------------------------------------------------------------------
(* The specification *)

InitialConfig ==
    [image |-> None, sudo_command |-> DEFAULT_SUDO_PATH, install_sudo |-> None,
     no_password |-> FALSE, unsafe_setup_passwordless_sudo |-> FALSE]

InitialLocals ==
    [image |-> "", name |-> "", temp |-> FALSE, pulled |-> FALSE,
     determined |-> FALSE, target |-> None, create_user |-> FALSE,
     container_user_id |-> DEFAULT_USER_ID, container_user_gid |-> DEFAULT_USER_ID,
     idmap |-> "", pass_args |-> <<>>, arguments |-> <<>>, synthesized |-> FALSE,
     enter_name |-> "", enter_username |-> None, enter_shell |-> None,
     append_args |-> <<>>, rel |-> "", entered |-> FALSE, enter_command |-> <<>>,
     i |-> 1]

Init ==
    /\ \E s \in Scenarios :
          /\ cli = s.cli
          /\ parsed_config_file = s.file
          /\ env = s.env
          /\ host = s.host
          /\ world = s.world
    /\ config = InitialConfig
    /\ config_with_cli_flags = InitialConfig
    /\ pc = "main"
    /\ loc = InitialLocals
    /\ spawned = <<>>
    /\ stdout = <<>>
    /\ stderr = <<>>
    /\ exit_code = -1

Next ==
    \/ Main
    \/ resolve_config_args_create_tmp
    \/ handle_create
    \/ handle_temp
    \/ image_inspect
    \/ image_pull
    \/ cat_etc_passwd
    \/ create_container_inspect
    \/ create_container_run
    \/ temp_run
    \/ handle_enter
    \/ enter_container_inspect
    \/ enter_container_start
    \/ enter_container_exec
    \/ handle_remove
    \/ remove_kill
    \/ remove_rm
    \/ handle_restart
    \/ restart_kill
    \/ restart_start
    \/ handle_list
    \/ list_ps

Spec == Init /\ [][Next]_vars

----------------------------------------------------------------------------
(* Vocabulary of the properties *)

Ended == pc \in {"done", "exec"}

IsImageInspect(v) == Len(v) >= 4 /\ v[2] = "podman" /\ v[3] = "image" /\ v[4] = "inspect"

IsPasswdDump(v) == Len(v) >= 5 /\ v[2] = "podman" /\ v[3] = "run" /\ v[5] = "--entrypoint"

IsRun(v) == Len(v) >= 4 /\ v[2] = "podman" /\ v[3] = "run" /\ v[4] = "--label"

IsContainerInspect(v) ==
    Len(v) >= 4 /\ v[2] = "podman" /\ v[3] = "container" /\ v[4] = "inspect"

Spawned(Is(_)) == \E i \in 1..Len(spawned) : Is(spawned[i])

\* the first of a list of optional values that is set
RECURSIVE FirstSet(_)
FirstSet(options) ==
    IF options = <<>> THEN None
    ELSE IF Head(options).some THEN Head(options)
    ELSE FirstSet(Tail(options))

\* what each layer says about key k, as an optional value
CliLayer(k) == IF k \in CliKeys THEN cli[k] ELSE None

EnvLayer(k) ==
    LET text == env[EnvVar[k]] IN
    IF ~text.some THEN None
    ELSE IF k \in BoolKeys THEN Some(text.val = "true")
    ELSE Some(text.val)

GlobalLayer(k) == parsed_config_file.base[k]

BuiltInDefault(k) ==
    CASE k = "image" -> None
      [] k = "sudo_command" -> Some("sudo")
      [] k = "install_sudo" -> None
      [] OTHER -> Some(FALSE)

ProfileLayer(name, k) ==
    IF name.some /\ name.val \in DOMAIN parsed_config_file.image_specific
    THEN parsed_config_file.image_specific[name.val][k]
    ELSE None

\* a field of a Config as an optional value
FieldOf(c, k) == IF k \in {"image", "install_sudo"} THEN c[k] ELSE Some(c[k])

\* the image name the layers without any profile give
ProvisionalImage == FirstSet(<<CliLayer("image"), EnvLayer("image"), GlobalLayer("image")>>)

Resolved == cli.command \in CreateTemp /\ pc \notin {"main", "run"}

----------------------------------------------------------------------------
(* C1 *)

\* C1 (as claimed): when the dry-run flag is set no external process is
\* spawned, whatever the subcommand and the input.
C1_DryRunSpawnsNothing == cli.dry_run => spawned = <<>>

----------------------------------------------------------------------------
(* C2 *)

\* C2: after resolve_config_args_create_tmp every field of the effective
\* configuration is the value of the highest layer that set it, in the
\* order CLI, environment, matched per-image profile, global profile,
\* built-in default; a layer that leaves the field unset overrides nothing.
C2_Precedence ==
    Resolved =>
        \A k \in Keys :
            FieldOf(config, k) =
                FirstSet(<<CliLayer(k), EnvLayer(k), ProfileLayer(ProvisionalImage, k),
                           GlobalLayer(k), BuiltInDefault(k)>>)

\* all four layers set install_sudo, the CLI to an explicit false
C2_Witness ==
    /\ Resolved
    /\ CliLayer("install_sudo") = Some(FALSE)
    /\ EnvLayer("install_sudo") = Some(TRUE)
    /\ ProfileLayer(ProvisionalImage, "install_sudo") = Some(TRUE)
    /\ GlobalLayer("install_sudo") = Some(TRUE)
    /\ config.install_sudo = Some(FALSE)

----------------------------------------------------------------------------
(* C3 *)

\* C3: the provisional configuration is the merge of defaults, global
\* profile, environment and CLI; when its image names a per-image profile the
\* final configuration has that profile's values below environment and CLI,
\* and otherwise the final configuration is the provisional one.
C3_TwoPass ==
    Resolved =>
        /\ \A k \in Keys :
              FieldOf(config_with_cli_flags, k) =
                  FirstSet(<<CliLayer(k), EnvLayer(k), GlobalLayer(k), BuiltInDefault(k)>>)
        /\ IF /\ config_with_cli_flags.image.some
              /\ config_with_cli_flags.image.val \in DOMAIN parsed_config_file.image_specific
           THEN \A k \in Keys :
                   FieldOf(config, k) =
                       FirstSet(<<CliLayer(k), EnvLayer(k),
                                  parsed_config_file.image_specific
                                      [config_with_cli_flags.image.val][k],
                                  GlobalLayer(k), BuiltInDefault(k)>>)
           ELSE config = config_with_cli_flags

\* the image comes from the CLI alone, its profile sets a field that the
\* global profile sets otherwise, and the profile's value is the effective one
C3_Witness ==
    /\ Resolved
    /\ cli.image = Some("a")
    /\ GlobalLayer("image") # Some("a")
    /\ "a" \in DOMAIN parsed_config_file.image_specific
    /\ parsed_config_file.image_specific["a"]["no_password"] = Some(TRUE)
    /\ GlobalLayer("no_password") = Some(FALSE)
    /\ ~CliLayer("no_password").some
    /\ ~EnvLayer("no_password").some
    /\ config_with_cli_flags.no_password = FALSE
    /\ config.no_password = TRUE

----------------------------------------------------------------------------
(* C4 *)

\* how many image inspects were spawned so far
ImageInspects == Cardinality({i \in 1..Len(spawned) : IsImageInspect(spawned[i])})

\* the last image inspect spawned answered with the image's metadata
ImageInspected == ImageInspects >= 1 /\ world.image_inspect[ImageInspects] = "ok"

\* C4: when the inspected image carries SEABOX_USER_ID with integer value n,
\* identity resolution returns (n, n), create_user is false, and the passwd
\* dump is never spawned.
C4_LabelWins ==
    LET n == IF world.label.some THEN ParseI64(world.label.val) ELSE None IN
    (world.label.some /\ n.some) =>
        /\ ~Spawned(IsPasswdDump)
        /\ pc # "cat_passwd"
        /\ (ImageInspected => loc.determined)
        /\ (loc.determined =>
               /\ loc.target = Some(<<n.val, n.val>>)
               /\ ~loc.create_user
               /\ loc.container_user_id = n.val
               /\ loc.container_user_gid = n.val)

\* the label 1500 was read and decided the ids
C4_Witness ==
    /\ world.label = Some(<<"1", "5", "0", "0">>)
    /\ ImageInspected
    /\ loc.determined
    /\ loc.target = Some(<<1500, 1500>>)
    /\ ~loc.create_user
    /\ ~Spawned(IsPasswdDump)

----------------------------------------------------------------------------
(* C5, C6 *)

\* the positions of the dump's entries whose uid is in [1000, 2000)
BandOf(us) == {i \in 1..Len(us) : us[i].uid >= 1000 /\ us[i].uid < 2000}

\* C5: without a label and with a dump that parses, the ids returned are
\* those of an entry of the band [1000, 2000) whose uid is the largest of the
\* band; an entry with uid 999 or 2000 is never the one selected.
C5_PasswdBand ==
    LET parsed == parse_passwd(world.passwd.lines) IN
    (/\ loc.determined
     /\ ~world.label.some
     /\ world.passwd.ok
     /\ parsed.some
     /\ BandOf(parsed.val) # {}) =>
        /\ loc.target.some
        /\ \E i \in BandOf(parsed.val) :
              /\ loc.target.val = <<parsed.val[i].uid, parsed.val[i].gid>>
              /\ \A j \in BandOf(parsed.val) : parsed.val[j].uid <= parsed.val[i].uid
        /\ loc.target.val[1] \notin {999, 2000}
        /\ ~loc.create_user

\* the dump with the uids 999, 1000, 1042, 2000 gave 1042
C5_Witness ==
    /\ loc.determined
    /\ ~world.label.some
    /\ world.passwd = [ok |-> TRUE, lines |-> ExamplePasswd]
    /\ Spawned(IsPasswdDump)
    /\ loc.target = Some(<<1042, 1042>>)

\* the entry script the handlers build when a user has to be created
ScriptCreatingUser ==
    create_initial_enter_script(TRUE, "user", 1000,
        config.unsafe_setup_passwordless_sudo, config.no_password,
        config.install_sudo, cli.shell, cli.verbose)

\* position, in the run vector, of the token that follows the pass-through
\* tokens by k places
AfterPassThrough(k) == 8 + Len(loc.pass_args) + k

\* C6: without a label and without an entry in [1000, 2000) (or without a
\* dump), identity resolution returns the sentinel, create_user is true, and
\* the idmap expression, the persistent -u value and the entry script use
\* 1000:1000.
C6_NoEvidence ==
    LET parsed == parse_passwd(world.passwd.lines) IN
    (/\ loc.determined
     /\ ~world.label.some
     /\ \/ ~world.passwd.ok
        \/ parsed.some /\ BandOf(parsed.val) = {}) =>
        /\ loc.target = None
        /\ loc.create_user
        /\ loc.container_user_id = 1000
        /\ loc.container_user_gid = 1000
        /\ (loc.idmap # "" =>
               loc.idmap = Dec(host.uid) \o "-1000-1#0-0-1;gids="
                           \o Dec(host.gid) \o "-1000-1#0-0-1")
        /\ (loc.synthesized /\ ~loc.temp =>
               /\ loc.arguments[AfterPassThrough(7)] = "-u"
               /\ loc.arguments[AfterPassThrough(8)] = "1000:1000")
        /\ (loc.synthesized /\ loc.temp =>
               loc.arguments[Len(loc.arguments)] = ScriptCreatingUser)
        /\ (loc.append_args # <<>> => loc.append_args = <<"/bin/sh", "-c", ScriptCreatingUser>>)

\* a dump whose only users are 999 and 2000, a persistent container created
\* and entered with the user-creating script
C6_Witness ==
    /\ ~world.label.some
    /\ world.passwd = [ok |-> TRUE,
                       lines |-> <<PasswdLine(<<"r">>, 999, 999),
                                   PasswdLine(<<"e">>, 2000, 2000)>>]
    /\ loc.determined
    /\ loc.create_user
    /\ ~loc.temp
    /\ loc.append_args = <<"/bin/sh", "-c", ScriptCreatingUser>>
    /\ \E i \in 1..Len(spawned) :
          /\ IsRun(spawned[i])
          /\ spawned[i][AfterPassThrough(8)] = "1000:1000"

----------------------------------------------------------------------------
(* C7 *)

\* C7: the idmap expression is "0-0-2000;gids=0-0-2000" in root mode and
\* "H-U-1#0-0-1;gids=G-V-1#0-0-1" otherwise, for host ids H, G and container
\* ids U, V; it is the expression the primary mount carries.
C7_Idmap ==
    loc.idmap # "" =>
        /\ (cli.root => loc.idmap = "0-0-2000;gids=0-0-2000")
        /\ (~cli.root =>
               loc.idmap = Dec(host.uid) \o "-" \o Dec(loc.container_user_id)
                           \o "-1#0-0-1;gids="
                           \o Dec(host.gid) \o "-" \o Dec(loc.container_user_gid)
                           \o "-1#0-0-1")
        /\ (/\ ~cli.root
            /\ host.uid = 1001 /\ host.gid = 1001
            /\ loc.container_user_id = 1042 /\ loc.container_user_gid = 1042
            => loc.idmap = "1001-1042-1#0-0-1;gids=1001-1042-1#0-0-1")
        /\ (loc.synthesized /\ ~cli.no_dir =>
               /\ loc.arguments[AfterPassThrough(12)] = "--mount"
               /\ loc.arguments[AfterPassThrough(13)] =
                      "type=bind,source="
                      \o Concat(IF cli.directory.some THEN cli.directory.val ELSE host.cwd)
                      \o ",destination=/mount/,idmap=uids=" \o loc.idmap)

\* host 1001:1001 mapped to the passwd user 1042:1042, in a spawned run
C7_Witness ==
    /\ ~cli.root
    /\ host.uid = 1001 /\ host.gid = 1001
    /\ loc.target = Some(<<1042, 1042>>)
    /\ loc.idmap = "1001-1042-1#0-0-1;gids=1001-1042-1#0-0-1"
    /\ \E i \in 1..Len(spawned) :
          /\ IsRun(spawned[i])
          /\ spawned[i][AfterPassThrough(13)] =
                 "type=bind,source=/p/s,destination=/mount/,idmap=uids=1001-1042-1#0-0-1;gids=1001-1042-1#0-0-1"

----------------------------------------------------------------------------
(* C8 *)

ColonCount(specifier) ==
    Cardinality({i \in 1..Len(specifier) : specifier[i] = ":"})

AllTwoFields == \A i \in 1..Len(cli.volume) : ColonCount(cli.volume[i]) = 1

ColonAt(specifier) == CHOOSE i \in 1..Len(specifier) : specifier[i] = ":"

BeforeColon(specifier) == Concat(SubSeq(specifier, 1, ColonAt(specifier) - 1))

AfterColon(specifier) ==
    Concat(SubSeq(specifier, ColonAt(specifier) + 1, Len(specifier)))

\* position of the last token before the additional mounts
BeforeAdditionalMounts == AfterPassThrough(IF cli.no_dir THEN 11 ELSE 13)

RunPrinted ==
    \E i \in 1..Len(stdout) : stdout[i].print = "command" /\ IsRun(stdout[i].argv)

\* C8: in a synthesized run vector every specifier has exactly two
\* colon-delimited fields and contributes, in the order given, one --mount
\* pair with its source, its destination and the idmap expression of the
\* primary mount; with a specifier of any other shape no run vector is
\* synthesized, spawned or printed, and the invocation ends with status 1
\* once it reaches the mounts.
C8_AdditionalMounts ==
    /\ loc.synthesized =>
          /\ AllTwoFields
          /\ \A i \in 1..Len(cli.volume) :
                /\ loc.arguments[BeforeAdditionalMounts + 2 * i - 1] = "--mount"
                /\ loc.arguments[BeforeAdditionalMounts + 2 * i] =
                       "type=bind,source=" \o BeforeColon(cli.volume[i])
                       \o ",destination=" \o AfterColon(cli.volume[i])
                       \o ",idmap=uids=" \o loc.idmap
          /\ loc.arguments[BeforeAdditionalMounts + 2 * Len(cli.volume) + 1] = "--name"
    /\ (cli.command \in CreateTemp /\ ~AllTwoFields) =>
          /\ ~loc.synthesized
          /\ ~Spawned(IsRun)
          /\ ~RunPrinted
          /\ exit_code # 0
          /\ (Ended => exit_code \in {1, 101})
          /\ (loc.idmap # "" => pc = "done" /\ exit_code = 1)

\* two well-formed specifiers, in the order given, in a spawned run
C8_Witness ==
    /\ cli.volume = << <<"x", ":", "y">>, <<"/", "a", "/", "b", ":", "/", "c", "/", "d">> >>
    /\ ~cli.root
    /\ \E i \in 1..Len(spawned) :
          /\ IsRun(spawned[i])
          /\ SubSeq(spawned[i], BeforeAdditionalMounts + 1, BeforeAdditionalMounts + 4) =
                 << "--mount",
                    "type=bind,source=x,destination=y,idmap=uids=" \o loc.idmap,
                    "--mount",
                    "type=bind,source=/a/b,destination=/c/d,idmap=uids=" \o loc.idmap >>

----------------------------------------------------------------------------
(* C9 *)

\* the -u value the resolved identity gives
ResolvedUserString ==
    IF cli.root THEN "0:0"
    ELSE IF loc.target.some
    THEN Dec(loc.target.val[1]) \o ":" \o Dec(loc.target.val[2])
    ELSE "1000:1000"

\* C9 (as claimed): a temp vector contains --rm and no -d and has -u 0:0; a
\* create vector contains -d and no --rm and has -u equal to the resolved ids.
C9_AsClaimed ==
    loc.synthesized =>
        IF loc.temp
        THEN /\ "--rm" \in Range(loc.arguments)
             /\ "-d" \notin Range(loc.arguments)
             /\ loc.arguments[AfterPassThrough(8)] = "0:0"
        ELSE /\ "-d" \in Range(loc.arguments)
             /\ "--rm" \notin Range(loc.arguments)
             /\ loc.arguments[AfterPassThrough(8)] = ResolvedUserString

\* the tokens of the run vector up to "/mount/", without the pass-through
\* tokens
OwnTokens ==
    SubSeq(loc.arguments, 1, 8)
    \o SubSeq(loc.arguments, AfterPassThrough(1), AfterPassThrough(11))

\* C9 (amended): leaving aside the tokens spliced in from the pass-through
\* string, the flags of a temp vector contain --rm and no -d and its -u value
\* is 0:0; those of a create vector contain -d and no --rm and its -u value
\* is the resolved uid:gid.
C9_ModeAndUser ==
    loc.synthesized =>
        /\ loc.arguments[8] = (IF loc.temp THEN "--rm" ELSE "-d")
        /\ SubSeq(loc.arguments, 9, 8 + Len(loc.pass_args)) = loc.pass_args
        /\ loc.arguments[AfterPassThrough(7)] = "-u"
        /\ IF loc.temp
           THEN /\ "--rm" \in Range(OwnTokens)
                /\ "-d" \notin Range(OwnTokens)
                /\ loc.arguments[AfterPassThrough(8)] = "0:0"
           ELSE /\ "-d" \in Range(OwnTokens)
                /\ "--rm" \notin Range(OwnTokens)
                /\ loc.arguments[AfterPassThrough(8)] = ResolvedUserString

\* a temp run with a resolved identity other than root and a pass-through
\* -d, spawned with --rm and -u 0:0
C9_Witness ==
    /\ loc.temp
    /\ loc.target = Some(<<1042, 1042>>)
    /\ loc.pass_args = <<"-d">>
    /\ \E i \in 1..Len(spawned) :
          /\ IsRun(spawned[i])
          /\ spawned[i][8] = "--rm"
          /\ spawned[i][9] = "-d"
          /\ spawned[i][AfterPassThrough(8)] = "0:0"

----------------------------------------------------------------------------
(* C10 *)

ContainerInspects ==
    Cardinality({i \in 1..Len(spawned) : IsContainerInspect(spawned[i])})

\* enter_container has spawned its inspect (the second one of a create)
EnterInspected ==
    IF cli.command = "create" THEN ContainerInspects >= 2
    ELSE cli.command = "enter" /\ ContainerInspects >= 1

\* the inspect of enter_container told of a container and of its mounts
EnterInfoGood ==
    /\ world.enter_inspect.status # SpawnErr
    /\ ~NonZero(world.enter_inspect.status)
    /\ world.enter_inspect.json_ok
    /\ world.enter_inspect.mounts # <<>>

\* the path of C relative to M when C is M or below it by whole components,
\* the empty path otherwise
ExpectedRelativePath(M, C) ==
    LET m == absolute(M, C)
        c == Components(C)
    IN IF Len(m) <= Len(c) /\ \A i \in 1..Len(m) : m[i] = c[i]
       THEN JoinWith([i \in 1..(Len(c) - Len(m)) |-> Concat(c[Len(m) + i])], "/")
       ELSE ""

\* C10: the working directory of the exec vector is /mount/ followed by the
\* path of the current directory relative to the first mount source when it
\* is that directory or below it by whole components, and /mount/ alone
\* otherwise; a current directory outside the mount source stops nothing.
C10_EnterPath ==
    (EnterInspected /\ EnterInfoGood) =>
        /\ loc.entered
        /\ loc.enter_command[5] = "-w"
        /\ loc.enter_command[6] =
               "/mount/" \o ExpectedRelativePath(world.enter_inspect.mounts[1], host.cwd)
        /\ (host.cwd = <<"/", "p", "/", "s">>
            /\ world.enter_inspect.mounts[1] = <<"/", "p">>
            => loc.enter_command[6] = "/mount/s")
        /\ (host.cwd = <<"/", "p", "2">>
            /\ world.enter_inspect.mounts[1] = <<"/", "p">>
            => loc.enter_command[6] = "/mount/")

\* exec reached from two levels below the mount source
C10_Witness ==
    /\ pc = "exec"
    /\ host.cwd = <<"/", "p", "/", "s", "/", "t">>
    /\ world.enter_inspect.mounts[1] = <<"/", "p">>
    /\ spawned[Len(spawned)][6] = "/mount/s/t"

----------------------------------------------------------------------------
(* C11 *)

IsStart(v) == Len(v) >= 3 /\ v[2] = "podman" /\ v[3] = "start"

IsExec(v) == Len(v) >= 3 /\ v[2] = "podman" /\ v[3] = "exec"

IsKill(v) == Len(v) >= 3 /\ v[2] = "podman" /\ v[3] = "kill"

IsRm(v) == Len(v) >= 4 /\ v[2] = "podman" /\ v[3] = "container" /\ v[4] = "rm"

IsPull(v) == Len(v) >= 3 /\ v[2] = "podman" /\ v[3] = "pull"

IsPs(v) == Len(v) >= 3 /\ v[2] = "podman" /\ v[3] = "ps"

\* the positions in `spawned' of the vectors of one kind
Positions(Is(_)) == {i \in 1..Len(spawned) : Is(spawned[i])}

\* the position of the inspect of enter_container: the first container
\* inspect of an enter, the second one of a create; 0 before it is issued
EnterInspectAt ==
    LET at == Positions(IsContainerInspect)
        later == IF cli.command = "create" /\ at # {}
                 THEN at \ {CHOOSE i \in at : \A j \in at : i <= j}
                 ELSE at
    IN IF later = {} THEN 0 ELSE CHOOSE i \in later : \A j \in later : i <= j

\* C11 (as claimed): in an enter that is no dry run the inspect comes first;
\* after an inspect that exited non-zero neither start nor exec is spawned;
\* start is spawned exactly when the inspected container is not running; exec
\* is spawned only after the inspect exited with status 0 and, when a start
\* was needed, only after the start exited with status 0; nothing is spawned
\* after an exec that succeeded.
C11_EnterSequence ==
    (~cli.dry_run /\ cli.command \in {"enter", "create"}) =>
        /\ \A i \in Positions(IsStart) \cup Positions(IsExec) :
              EnterInspectAt # 0 /\ EnterInspectAt < i
        /\ (EnterInspectAt # 0 /\ NonZero(world.enter_inspect.status)) =>
              Positions(IsStart) \cup Positions(IsExec) = {}
        /\ Positions(IsStart) # {} => ~world.enter_inspect.running
        /\ (loc.entered /\ ~world.enter_inspect.running /\ pc # "enter_start") =>
              Positions(IsStart) # {}
        /\ \A x \in Positions(IsExec) :
              /\ world.enter_inspect.status = Exited(0)
              /\ ~world.enter_inspect.running =>
                    /\ \E s \in Positions(IsStart) : s < x
                    /\ world.start = Exited(0)
        /\ pc = "exec" =>
              /\ Positions(IsExec) = {Len(spawned)}
              /\ exit_code = -1

----------------------------------------------------------------------------
(* C12 *)

\* handle_create has spawned its inspect for an existing container
CollisionInspected ==
    cli.command = "create" /\ ~cli.dry_run /\ Positions(IsContainerInspect) # {}

\* C12: a create that is no dry run and whose container inspect exits with
\* status 0 says that the container already exists and ends with status 1
\* right after that inspect; no run, start or exec is ever spawned.
C12_NameCollision ==
    (CollisionInspected /\ world.create_inspect = Exited(0)) =>
        /\ pc = "done"
        /\ exit_code = 1
        /\ stderr = <<"A container with name '" \o cli.name \o "' already exists">>
        /\ Positions(IsContainerInspect) = {Len(spawned)}
        /\ Positions(IsRun) \cup Positions(IsStart) \cup Positions(IsExec) = {}

\* a create in non-root mode stopped by the collision after its identity
\* resolution
C12_Witness ==
    /\ cli.command = "create" /\ ~cli.dry_run /\ ~cli.root
    /\ world.create_inspect = Exited(0)
    /\ loc.synthesized
    /\ Len(spawned) = 3 /\ IsContainerInspect(spawned[3])
    /\ exit_code = 1
    /\ stderr = <<"A container with name 'box' already exists">>

----------------------------------------------------------------------------
(* C13 *)

\* C13 (as claimed): when no container of the name exists (the runtime's
\* inspect or kill exits non-zero), an enter, and the kill step of a remove or
\* of a restart, writes a message and ends the invocation with a non-zero
\* status, that command being the last one spawned.
C13_NameNotFound ==
    ~cli.dry_run =>
        /\ (cli.command = "enter" /\ EnterInspectAt # 0
            /\ NonZero(world.enter_inspect.status)) =>
              /\ pc = "done" /\ exit_code > 0
              /\ stderr = <<"A container with name '" \o cli.name \o "' does not exist">>
              /\ Len(spawned) = 1
        /\ (cli.command \in {"remove", "restart"} /\ Positions(IsKill) # {}
            /\ NonZero(world.kill)) =>
              /\ pc = "done" /\ exit_code > 0
              /\ stderr # <<>>
              /\ Len(spawned) = 1

----------------------------------------------------------------------------
(* C14 *)

\* C14 (as claimed): after a pull, or a start of enter, that exited with a
\* non-zero status c the invocation has ended with status c and nothing is
\* spawned after that command.
C14_FailurePropagation ==
    (~cli.dry_run /\ cli.command \in {"create", "temp", "enter"}) =>
        /\ (Positions(IsPull) # {} /\ NonZero(world.pull)) =>
              /\ pc = "done"
              /\ exit_code = world.pull.code
              /\ Positions(IsPull) = {Len(spawned)}
        /\ (Positions(IsStart) # {} /\ NonZero(world.start)) =>
              /\ pc = "done"
              /\ exit_code = world.start.code
              /\ Positions(IsStart) = {Len(spawned)}

\* what of C14 the program does: it stops right after the failed command,
\* with status 1
C14_StopsWithOne ==
    (~cli.dry_run /\ cli.command \in {"create", "temp", "enter"}) =>
        /\ (Positions(IsPull) # {} /\ NonZero(world.pull)) =>
              /\ pc = "done" /\ exit_code = 1
              /\ Positions(IsPull) = {Len(spawned)}
        /\ (Positions(IsStart) # {} /\ NonZero(world.start)) =>
              /\ pc = "done" /\ exit_code = 1
              /\ Positions(IsStart) = {Len(spawned)}

----------------------------------------------------------------------------
(* C15 *)

\* a command that could not be spawned or that exited non-zero
Failed(st) == st = SpawnErr \/ NonZero(st)

\* the command spawned at position i failed
FailedAt(i) ==
    LET v == spawned[i] IN
    \/ IsRun(v) /\ Failed(world.run)
    \/ IsKill(v) /\ Failed(world.kill)
    \/ IsRm(v) /\ Failed(world.rm)
    \/ IsStart(v) /\ Failed(world.start)
    \/ IsPs(v) /\ Failed(world.ps)
    \/ IsPull(v) /\ Failed(world.pull)
    \/ IsPasswdDump(v) /\ ~world.passwd.ok

\* C15 (as claimed): in an invocation that is no dry run, a run, kill, rm,
\* start, ps, pull or passwd dump that failed is the last command spawned
\* and the invocation has ended with a non-zero status.
C15_NoSilentFailure ==
    ~cli.dry_run =>
        \A i \in 1..Len(spawned) :
            FailedAt(i) => /\ i = Len(spawned)
                           /\ pc = "done"
                           /\ exit_code > 0

----------------------------------------------------------------------------
(* C16 *)

\* a dry run of create or temp in non-root mode whose image inspect was
\* spawned and did not succeed
DryRunImageMissing ==
    /\ cli.dry_run /\ cli.command \in CreateTemp /\ ~cli.root
    /\ Positions(IsImageInspect) # {}
    /\ world.image_inspect[1] \in {"fail", "spawn_err"}

\* C16: such a dry run prints the notice and then the pull command, ends
\* with status 1, spawns no pull, no passwd dump and no run, and prints no
\* run command.
C16_DryRunPullStop ==
    DryRunImageMissing =>
        /\ pc = "done"
        /\ exit_code = 1
        /\ Len(stdout) >= 2
        /\ stdout[Len(stdout) - 1] =
               PrintLine("# Need to pull image at this point - cannot proceed with dry run")
        /\ stdout[Len(stdout)] =
               PrintCommand(<<config.sudo_command, "podman", "pull", loc.image>>)
        /\ Positions(IsPull) \cup Positions(IsPasswdDump) \cup Positions(IsRun) = {}
        /\ ~RunPrinted
        /\ ~loc.synthesized

\* a dry-run temp stopped where the pull would be needed
C16_Witness ==
    /\ cli.dry_run /\ cli.command = "temp" /\ ~cli.root
    /\ world.image_inspect[1] = "fail"
    /\ pc = "done" /\ exit_code = 1
    /\ Len(spawned) = 1 /\ IsImageInspect(spawned[1])
    /\ stdout[Len(stdout)] = PrintCommand(<<"sudo", "podman", "pull", "base">>)

----------------------------------------------------------------------------
(* C17 *)

\* the text of an integer: an optional sign and at least one digit
IsIntegerText(cs) ==
    \/ Len(cs) >= 1 /\ \A i \in 1..Len(cs) : cs[i] \in Range(DigitChars)
    \/ Len(cs) >= 2 /\ cs[1] \in {"+", "-"}
                     /\ \A i \in 2..Len(cs) : cs[i] \in Range(DigitChars)

\* a line of the dump without integer uid and gid in its third and fourth
\* colon-delimited fields
MalformedLine(line) ==
    \/ ColonCount(line) < 3
    \/ LET values == Split(line, ":") IN
       ~IsIntegerText(values[3]) \/ ~IsIntegerText(values[4])

MalformedLabel == world.label.some /\ ~IsIntegerText(world.label.val)

MalformedDump ==
    world.passwd.ok /\ \E i \in 1..Len(world.passwd.lines) : MalformedLine(world.passwd.lines[i])

\* identity resolution ended in a panic: no decision, no run vector built,
\* printed or spawned
AbortedUndecided ==
    /\ pc = "done"
    /\ exit_code = 101
    /\ ~loc.determined
    /\ ~loc.synthesized
    /\ Positions(IsRun) = {}
    /\ ~RunPrinted

\* C17: once the image's metadata is read, a SEABOX_USER_ID label that is no
\* integer aborts the invocation with a non-zero status before any passwd
\* dump; once the dump is read, any line without integer uid and gid
\* fields, whatever its uid and wherever it stands, aborts it likewise; no
\* uid/gid decision is produced and no run command is issued.
C17_MalformedEvidence ==
    (cli.command \in CreateTemp /\ ~cli.root) =>
        /\ (ImageInspected /\ MalformedLabel) =>
              AbortedUndecided /\ Positions(IsPasswdDump) = {}
        /\ (Positions(IsPasswdDump) # {} /\ MalformedDump) =>
              AbortedUndecided /\ Positions(IsPasswdDump) = {Len(spawned)}

\* a dump whose first line is a user of the band and whose second line, of
\* a uid outside the band, has a gid that is no integer
C17_Witness ==
    /\ cli.command = "create"
    /\ world.passwd.lines = << PasswdLine(<<"b">>, 1042, 1042),
                               <<"v", ":", "x", ":", "5", ":", "z">> >>
    /\ Positions(IsPasswdDump) # {}
    /\ pc = "done"
    /\ exit_code = 101

----------------------------------------------------------------------------
(* C18 *)

\* the shell given on the command line, or the shell-detecting default
PlainShell == IF cli.shell.some THEN <<cli.shell.val>> ELSE DEFAULT_SHELL

\* the entry scripts the handlers could build in root mode
EntryScripts ==
    { create_initial_enter_script(cu, NEW_USER_USERNAME, id,
          config.unsafe_setup_passwordless_sudo, config.no_password,
          config.install_sudo, cli.shell, cli.verbose)
      : cu \in BOOLEAN, id \in {0, DEFAULT_USER_ID} }

\* the tokens of vector v from position k on
From(v, k) == SubSeq(v, k, Len(v))

\* C18: with the root flag, create and temp spawn no image inspect, pull or
\* passwd dump; the ids are 0:0 and create_user is false; no vector built or
\* spawned holds an entry script; the run vector of temp ends, after the
\* image, with the plain shell, and the exec vector of create ends, after
\* the container name, with the plain shell.
C18_RootMode ==
    (cli.command \in CreateTemp /\ cli.root) =>
        /\ Positions(IsImageInspect) \cup Positions(IsPull) \cup Positions(IsPasswdDump) = {}
        /\ ~loc.determined
        /\ ~loc.create_user
        /\ \A i \in 1..Len(spawned) : Range(spawned[i]) \cap EntryScripts = {}
        /\ loc.synthesized =>
              /\ loc.container_user_id = 0 /\ loc.container_user_gid = 0
              /\ loc.arguments[AfterPassThrough(8)] = "0:0"
              /\ Range(loc.arguments) \cap EntryScripts = {}
              /\ loc.temp =>
                    LET k == Len(loc.arguments) - Len(PlainShell) IN
                    /\ From(loc.arguments, k - 2) = <<"--name", "", loc.image>> \o PlainShell
        /\ loc.entered =>
              /\ loc.append_args = <<>>
              /\ From(loc.enter_command, 7) = <<"--user", "root", cli.name>> \o PlainShell

\* a create in root mode with a shell of its own, entered by exec, and
\* nothing spawned but its inspect, run, inspect and exec
C18_Witness ==
    /\ cli.command = "create" /\ cli.root /\ cli.shell = Some("/bin/zsh")
    /\ pc = "exec"
    /\ Len(spawned) = 4
    /\ IsRun(spawned[2])
    /\ From(spawned[4], 7) = <<"--user", "root", "box", "/bin/zsh">>

----------------------------------------------------------------------------
(* C19 *)

\* the inspect of enter_container answered for a container that records no
\* mount; at the end of a create, one made without the default mount and
\* without additional mounts
EnterNoMounts ==
    /\ cli.command \in {"enter", "create"}
    /\ cli.command = "create" => cli.no_dir /\ cli.volume = <<>>
    /\ EnterInspectAt # 0
    /\ world.enter_inspect.status = Exited(0)
    /\ world.enter_inspect.json_ok
    /\ world.enter_inspect.mounts = <<>>

\* C19 (as claimed): on a container that records no mount the enter step
\* resolves the empty relative path and goes on towards exec with the
\* working directory /mount/, instead of aborting.
C19_NoMountsReachesExec ==
    EnterNoMounts =>
        /\ exit_code # 101
        /\ loc.entered
        /\ loc.rel = ""
        /\ loc.enter_command[6] = "/mount/"

====
